---------------------------- MODULE Spec2Model ----------------------------
(***************************************************************************)
(* Model of the prompt conversion pipeline of astrophena/tools:            *)
(*   devtools/gemini/aistudio2vertex.py  (source export -> chat prompt)    *)
(*   devtools/gemini/vertex2md.py        (chat prompt   -> transcript)     *)
(*                                                                         *)
(* Text is a sequence of one-character strings, a JSON object is a record  *)
(* whose DOMAIN is the set of keys that are present, a JSON array is a     *)
(* sequence.  Model identifiers, roles and authors are only ever compared  *)
(* as whole strings by the code and are kept as TLA+ strings.  A JSON file *)
(* is modelled by the value json.load returns for it (json.dump followed   *)
(* by json.load is not what any property below is about).                  *)
(***************************************************************************)
EXTENDS Naturals, Sequences, FiniteSets, TLC

VARIABLES
    exportFile,      \* the file named by args.src of aistudio2vertex.py
    promptFile,      \* args.dst of aistudio2vertex.py, args.src of vertex2md.py
    transcriptFile,  \* the file named by args.dst of vertex2md.py
    tool,            \* which script is running: "none", "convert", "render"
    pc,              \* position of the running script
    err,             \* the exception that ended the run, "" when none
    prompt,          \* the script's variable prompt
    converted,       \* aistudio2vertex.py's variable converted
    k,               \* index of the loop variable message in the list iterated
    text,            \* vertex2md.py's variable text
    dstBefore,       \* history: the destination file as it was when the run began
    prevRender       \* history: document and transcript of the last render that
                     \* ran to its end and exited

vars == <<exportFile, promptFile, transcriptFile, tool, pc, err, prompt,
          converted, k, text, dstBefore, prevRender>>

-----------------------------------------------------------------------------
(* Bounds of the model.                                                    *)

MaxChunks == 2
MaxMsgs == 2
MaxParts == 2

-----------------------------------------------------------------------------
(* Text.                                                                   *)

NL == "\n"

Quote == <<">", " ">>

\* The message texts the inputs are drawn from: a single line, three lines
\* the second of which is empty, a line that itself begins with "> ", and a
\* line that ends with a newline.
Texts ==
    { <<"a">>,
      <<"a", NL, NL, "b">>,
      <<">", " ", "c">>,
      <<"d", NL>> }

RECURSIVE Concat(_)
Concat(ss) == IF ss = <<>> THEN <<>> ELSE Head(ss) \o Concat(Tail(ss))

\* str.splitlines(True): the lines of s, each with its line end kept.
RECURSIVE SplitLinesFrom(_, _)
SplitLinesFrom(s, cur) ==
    IF s = <<>>
    THEN (IF cur = <<>> THEN <<>> ELSE <<cur>>)
    ELSE IF Head(s) = NL
         THEN <<Append(cur, NL)>> \o SplitLinesFrom(Tail(s), <<>>)
         ELSE SplitLinesFrom(Tail(s), Append(cur, Head(s)))

SplitLines(s) == SplitLinesFrom(s, <<>>)

\* str.strip() of a line is non-empty: the predicate textwrap.indent uses
\* when it is given none.
StripNonEmpty(line) == \E j \in 1..Len(line) : line[j] \notin {" ", NL}

\* lambda line: True
AlwaysTrue(line) == TRUE

\* textwrap.indent(text, prefix, lambda line: True)
Indent(s, prefix) ==
    LET lines == SplitLines(s)
    IN  Concat([j \in 1..Len(lines) |->
                   IF AlwaysTrue(lines[j]) THEN prefix \o lines[j] ELSE lines[j]])

\* Variant: print(s, file=file, end="")
PrintRaw(contents, s) == contents \o s

\* print(s, file=file): the file's contents after the call
PrintLine(contents, s) == contents \o s \o <<NL>>

-----------------------------------------------------------------------------
(* JSON values and files.                                                  *)

Has(obj, key) == key \in DOMAIN obj

Without(obj, key) == [f \in DOMAIN obj \ {key} |-> obj[f]]

SeqsUpTo(S, n) == UNION {[1..j -> S] : j \in 0..n}

Absent == [exists |-> FALSE]
Garbage == [exists |-> TRUE, kind |-> "garbage"]
JsonFile(v) == [exists |-> TRUE, kind |-> "json", value |-> v]
TextFile(s) == [exists |-> TRUE, kind |-> "text", chars |-> s]

IsJson(f) == f.exists /\ f.kind = "json"

Unset == [unset |-> TRUE]


-----------------------------------------------------------------------------
(* aistudio2vertex.py: inputs.                                             *)

\* The key Model Alias Table of the script.
models ==
    ("models/gemini-1.5-pro" :> "gemini-1.5-pro-001") @@
    ("models/gemini-1.5-flash" :> "gemini-1.5-flash-001")

\* models.get(key, default)
ModelsGet(key, default) == IF key \in DOMAIN models THEN models[key] ELSE default

\* Variant: an unrecognised identifier is passed through.
ResolveModelIdentity(key) == ModelsGet(key, key)

\* models.get(prompt["runSettings"]["model"], "gemini-1.5-pro")
ResolveModel(key) == ModelsGet(key, "gemini-1.5-pro")

SourceModels == DOMAIN models \cup {"models/gemini-1.0-pro", "gemini-1.5-pro-001"}

Roles == {"user", "model", "system"}

Settings(m) ==
    [temperature |-> "0.2", maxOutputTokens |-> "1024", topP |-> "0.9", model |-> m]

SettingsFields == {"temperature", "maxOutputTokens", "topP", "model"}

\* runSettings records: complete ones, and ones lacking one field.
SettingsOptions ==
    {Settings(m) : m \in SourceModels} \cup
    {Without(Settings("models/gemini-1.5-pro"), f) : f \in SettingsFields}

\* Chunks: complete ones, one without role, one without text.
Chunks ==
    {[role |-> r, text |-> t] : r \in Roles, t \in Texts} \cup
    {[text |-> <<"a">>], [role |-> "user"]}

ChunkLists == SeqsUpTo(Chunks, MaxChunks)

Export(s, cs) == [runSettings |-> s, chunkedPrompt |-> [chunks |-> cs]]

TwoTurns ==
    << [role |-> "user", text |-> <<"a">>],
       [role |-> "model", text |-> <<"a", NL, NL, "b">>] >>

\* The source export documents: every runSettings option with a two-turn
\* conversation, every chunk list with complete settings, and documents
\* lacking runSettings, chunkedPrompt or chunkedPrompt.chunks.
Exports ==
    {Export(s, TwoTurns) : s \in SettingsOptions} \cup
    {Export(Settings("models/gemini-1.5-flash"), cs) : cs \in ChunkLists} \cup
    { Without(Export(Settings("models/gemini-1.5-pro"), TwoTurns), "runSettings"),
      Without(Export(Settings("models/gemini-1.5-pro"), TwoTurns), "chunkedPrompt"),
      [runSettings |-> Settings("models/gemini-1.5-pro"),
       chunkedPrompt |-> [pendingInputs |-> <<>>]] }

\* args.src of aistudio2vertex.py, as text
SrcName == <<"e", ".", "j", "s", "o", "n">>

\* "Google AI Studio import ({src})".format(src=args.src)
ImportTitle ==
    <<"G", "o", "o", "g", "l", "e", " ", "A", "I", " ", "S", "t", "u", "d", "i", "o",
      " ", "i", "m", "p", "o", "r", "t", " ", "(">> \o SrcName \o <<")">>

-----------------------------------------------------------------------------
(* aistudio2vertex.py: the script.                                         *)

Fail(e) ==
    /\ pc' = "failed"
    /\ err' = e

\* The keys lines 21-31 look up with [], in evaluation order.
BuildMissing(p) ==
    \/ ~Has(p, "runSettings")
    \/ \E f \in SettingsFields : ~Has(p.runSettings, f)

\* Lines 21-31: the dictionary converted before the loop.
Converted(p) ==
    [title |-> ImportTitle,
     parameters |-> [temperature |-> p.runSettings.temperature,
                     tokenLimits |-> p.runSettings.maxOutputTokens,
                     topP |-> p.runSettings.topP],
     type |-> "multimodal_chat",
     messages |-> <<>>,
     model |-> ResolveModel(p.runSettings.model)]

\* Lines 34-36: content of the message built from a chunk.
Content(message) ==
    IF message.role = "model"
    THEN [parts |-> <<[text |-> message.text]>>, role |-> "model"]
    ELSE [parts |-> <<[text |-> message.text]>>]

\* Variant: everything that is not the model is the user.
AuthorModelOnly(message) == IF message.role = "model" THEN "bot" ELSE "user"

\* Line 39
Author(message) == IF message.role = "user" THEN "user" ELSE "bot"

\* Lines 38-41
Message(message) == [author |-> Author(message), content |-> Content(message)]

\* Variant: the message is inserted at the front.
PrependMessage(messages, m) == <<m>> \o messages

\* Lines 37-42: converted["messages"].append(...)
AppendMessage(messages, m) == Append(messages, m)

\* Lines 11-16: the script starts.
StartConvert ==
    /\ pc = "idle"
    /\ tool' = "convert"
    /\ pc' = "n_load"
    /\ dstBefore' = promptFile
    /\ UNCHANGED <<exportFile, promptFile, transcriptFile, err, prompt, converted,
                   k, text, prevRender>>

\* Variant: the destination is opened for writing before the source is read.
N_LoadOpensDst ==
    /\ tool = "convert" /\ pc = "n_load"
    /\ promptFile' = TextFile(<<>>)
    /\ IF ~exportFile.exists
       THEN Fail("FileNotFoundError") /\ UNCHANGED prompt
       ELSE IF ~IsJson(exportFile)
       THEN Fail("JSONDecodeError") /\ UNCHANGED prompt
       ELSE /\ prompt' = exportFile.value
            /\ pc' = "n_build"
            /\ UNCHANGED err
    /\ UNCHANGED <<exportFile, transcriptFile, tool, converted, k, text,
                   dstBefore, prevRender>>

\* Lines 18-19: open(args.src), load(file).
N_Load ==
    /\ tool = "convert" /\ pc = "n_load"
    /\ IF ~exportFile.exists
       THEN Fail("FileNotFoundError") /\ UNCHANGED prompt
       ELSE IF ~IsJson(exportFile)
       THEN Fail("JSONDecodeError") /\ UNCHANGED prompt
       ELSE /\ prompt' = exportFile.value
            /\ pc' = "n_build"
            /\ UNCHANGED err
    /\ UNCHANGED <<exportFile, promptFile, transcriptFile, tool, converted, k, text,
                   dstBefore, prevRender>>

\* Variant: dict.get with defaults in place of the subscripts of lines 24-30.
N_BuildWithDefaults ==
    /\ tool = "convert" /\ pc = "n_build"
    /\ converted' = IF BuildMissing(prompt)
                    THEN Converted(Export(Settings("models/gemini-1.5-pro"), <<>>))
                    ELSE Converted(prompt)
    /\ pc' = "n_iter"
    /\ UNCHANGED <<exportFile, promptFile, transcriptFile, tool, err, prompt, k, text,
                   dstBefore, prevRender>>

\* Lines 21-31
N_Build ==
    /\ tool = "convert" /\ pc = "n_build"
    /\ IF BuildMissing(prompt)
       THEN Fail("KeyError") /\ UNCHANGED converted
       ELSE /\ converted' = Converted(prompt)
            /\ pc' = "n_iter"
            /\ UNCHANGED err
    /\ UNCHANGED <<exportFile, promptFile, transcriptFile, tool, prompt, k, text,
                   dstBefore, prevRender>>

\* Line 33: prompt["chunkedPrompt"]["chunks"] is evaluated and iterated.
N_Iter ==
    /\ tool = "convert" /\ pc = "n_iter"
    /\ IF ~Has(prompt, "chunkedPrompt") \/ ~Has(prompt.chunkedPrompt, "chunks")
       THEN Fail("KeyError") /\ UNCHANGED k
       ELSE /\ k' = 1
            /\ pc' = IF prompt.chunkedPrompt.chunks = <<>> THEN "n_write" ELSE "n_body"
            /\ UNCHANGED err
    /\ UNCHANGED <<exportFile, promptFile, transcriptFile, tool, prompt, converted,
                   text, dstBefore, prevRender>>

\* Lines 34-42: one pass of the loop body, on the k-th chunk.
N_Body ==
    /\ tool = "convert" /\ pc = "n_body"
    /\ LET chunks == prompt.chunkedPrompt.chunks
           message == chunks[k]
       IN  IF ~Has(message, "text") \/ ~Has(message, "role")
           THEN Fail("KeyError") /\ UNCHANGED <<converted, k>>
           ELSE /\ converted' =
                      [converted EXCEPT
                          !.messages = AppendMessage(@, Message(message))]
                /\ k' = k + 1
                /\ pc' = IF k < Len(chunks) THEN "n_body" ELSE "n_write"
                /\ UNCHANGED err
    /\ UNCHANGED <<exportFile, promptFile, transcriptFile, tool, prompt, text,
                   dstBefore, prevRender>>

\* Lines 44-45: open(args.dst, "w"), dump(converted, file, indent=2).
N_Write ==
    /\ tool = "convert" /\ pc = "n_write"
    /\ promptFile' = JsonFile(converted)
    /\ pc' = "done"
    /\ UNCHANGED <<exportFile, transcriptFile, tool, err, prompt, converted, k, text,
                   dstBefore, prevRender>>

-----------------------------------------------------------------------------
(* vertex2md.py: inputs.                                                   *)

Authors == {"user", "bot"}

\* Parts after the first one of a message.
LaterParts == {[text |-> <<"z">>]}

\* Messages the script can render: an author and one part with any of the
\* texts, or an author and two to MaxParts parts.
GoodMessages ==
    {[author |-> a, content |-> [parts |-> <<[text |-> t]>>]] :
        a \in Authors, t \in Texts} \cup
    {[author |-> a, content |-> [parts |-> <<[text |-> <<"a">>]>> \o rest]] :
        a \in Authors, rest \in SeqsUpTo(LaterParts, MaxParts - 1)}

\* Messages it cannot: no author, no content, no parts key, zero parts, a
\* first part without text.
BadMessages ==
    { [content |-> [parts |-> <<[text |-> <<"a">>]>>]],
      [author |-> "user"],
      [author |-> "bot", content |-> [role |-> "model"]],
      [author |-> "bot", content |-> [parts |-> <<>>]],
      [author |-> "user", content |-> [parts |-> <<[fileData |-> "f"]>>]] }

Messages == GoodMessages \cup BadMessages

MessageLists == SeqsUpTo(Messages, MaxMsgs)

TwoMessages ==
    << [author |-> "user", content |-> [parts |-> <<[text |-> <<"a">>]>>]],
       [author |-> "bot", content |-> [parts |-> <<[text |-> <<"d", NL>>]>>]] >>

\* The Chat Prompt Documents vertex2md.py is given that aistudio2vertex.py
\* did not write: every message list under a title, and documents lacking
\* title or messages.
Documents ==
    {[title |-> <<"T">>, messages |-> ms] : ms \in MessageLists} \cup
    { [messages |-> TwoMessages], [title |-> <<"T">>] }

-----------------------------------------------------------------------------
(* vertex2md.py: the script.                                               *)

\* Variant: open(args.dst, "a")
OpenForAppend(f) == IF f.exists THEN f ELSE TextFile(<<>>)

\* open(args.dst, "w"): the file is created or truncated.
OpenForWrite(f) == TextFile(<<>>)

\* "# {title}".format(title=prompt["title"])
Heading(title) == <<"#", " ">> \o title

\* Variant: message["content"]["parts"][-1]
LastPart(parts) == parts[Len(parts)]

\* message["content"]["parts"][0]
FirstPart(parts) == parts[1]

\* The exception line 19 raises on message, "" when it raises none.
TextError(message) ==
    IF ~Has(message, "content") THEN "KeyError"
    ELSE IF ~Has(message.content, "parts") THEN "KeyError"
    ELSE IF Len(message.content.parts) = 0 THEN "IndexError"
    ELSE IF ~Has(FirstPart(message.content.parts), "text") THEN "KeyError"
    ELSE ""

\* Lines 3-10: the script starts.
StartRender ==
    /\ pc = "idle"
    /\ tool' = "render"
    /\ pc' = "r_load"
    /\ dstBefore' = transcriptFile
    /\ UNCHANGED <<exportFile, promptFile, transcriptFile, err, prompt, converted,
                   k, text, prevRender>>

\* Lines 12-13: open(args.src), load(file).
R_Load ==
    /\ tool = "render" /\ pc = "r_load"
    /\ IF ~promptFile.exists
       THEN Fail("FileNotFoundError") /\ UNCHANGED prompt
       ELSE IF ~IsJson(promptFile)
       THEN Fail("JSONDecodeError") /\ UNCHANGED prompt
       ELSE /\ prompt' = promptFile.value
            /\ pc' = "r_open"
            /\ UNCHANGED err
    /\ UNCHANGED <<exportFile, promptFile, transcriptFile, tool, converted, k, text,
                   dstBefore, prevRender>>

\* Variant: the heading is formatted before the destination is opened.
R_OpenAfterTitle ==
    /\ tool = "render" /\ pc = "r_open"
    /\ IF ~Has(prompt, "title")
       THEN Fail("KeyError") /\ UNCHANGED transcriptFile
       ELSE /\ transcriptFile' = TextFile(<<>>)
            /\ pc' = "r_heading"
            /\ UNCHANGED err
    /\ UNCHANGED <<exportFile, promptFile, tool, prompt, converted, k, text,
                   dstBefore, prevRender>>

\* Line 15: open(args.dst, "w").
R_Open ==
    /\ tool = "render" /\ pc = "r_open"
    /\ transcriptFile' = OpenForWrite(transcriptFile)
    /\ pc' = "r_heading"
    /\ UNCHANGED <<exportFile, promptFile, tool, err, prompt, converted, k, text,
                   dstBefore, prevRender>>

\* Line 16
R_Heading ==
    /\ tool = "render" /\ pc = "r_heading"
    /\ IF ~Has(prompt, "title")
       THEN Fail("KeyError") /\ UNCHANGED transcriptFile
       ELSE /\ transcriptFile' =
                   TextFile(PrintLine(transcriptFile.chars, Heading(prompt.title)))
            /\ pc' = "r_blank"
            /\ UNCHANGED err
    /\ UNCHANGED <<exportFile, promptFile, tool, prompt, converted, k, text,
                   dstBefore, prevRender>>

\* Line 17
R_Blank ==
    /\ tool = "render" /\ pc = "r_blank"
    /\ transcriptFile' = TextFile(PrintLine(transcriptFile.chars, <<>>))
    /\ pc' = "r_iter"
    /\ UNCHANGED <<exportFile, promptFile, tool, err, prompt, converted, k, text,
                   dstBefore, prevRender>>

\* Line 18: prompt["messages"] is evaluated and iterated.
R_Iter ==
    /\ tool = "render" /\ pc = "r_iter"
    /\ IF ~Has(prompt, "messages")
       THEN Fail("KeyError") /\ UNCHANGED k
       ELSE /\ k' = 1
            /\ pc' = IF prompt.messages = <<>> THEN "done" ELSE "r_text"
            /\ UNCHANGED err
    /\ UNCHANGED <<exportFile, promptFile, transcriptFile, tool, prompt, converted,
                   text, dstBefore, prevRender>>

\* Line 19
R_Text ==
    /\ tool = "render" /\ pc = "r_text"
    /\ LET message == prompt.messages[k]
       IN  IF TextError(message) # ""
           THEN Fail(TextError(message)) /\ UNCHANGED text
           ELSE /\ text' = FirstPart(message.content.parts).text
                /\ pc' = "r_author"
                /\ UNCHANGED err
    /\ UNCHANGED <<exportFile, promptFile, transcriptFile, tool, prompt, converted,
                   k, dstBefore, prevRender>>

\* Line 20
R_Author ==
    /\ tool = "render" /\ pc = "r_author"
    /\ LET message == prompt.messages[k]
       IN  IF ~Has(message, "author")
           THEN Fail("KeyError")
           ELSE /\ pc' = IF message.author = "user" THEN "r_indent" ELSE "r_print"
                /\ UNCHANGED err
    /\ UNCHANGED <<exportFile, promptFile, transcriptFile, tool, prompt, converted,
                   k, text, dstBefore, prevRender>>

\* Line 21
R_Indent ==
    /\ tool = "render" /\ pc = "r_indent"
    /\ text' = Indent(text, Quote)
    /\ pc' = "r_newline"
    /\ UNCHANGED <<exportFile, promptFile, transcriptFile, tool, err, prompt,
                   converted, k, dstBefore, prevRender>>

\* Line 22
R_Newline ==
    /\ tool = "render" /\ pc = "r_newline"
    /\ text' = text \o <<NL>>
    /\ pc' = "r_print"
    /\ UNCHANGED <<exportFile, promptFile, transcriptFile, tool, err, prompt,
                   converted, k, dstBefore, prevRender>>

\* Line 23, and the loop of line 18 moving on.
R_Print ==
    /\ tool = "render" /\ pc = "r_print"
    /\ transcriptFile' = TextFile(PrintLine(transcriptFile.chars, text))
    /\ k' = k + 1
    /\ pc' = IF k < Len(prompt.messages) THEN "r_text" ELSE "done"
    /\ UNCHANGED <<exportFile, promptFile, tool, err, prompt, converted, text,
                   dstBefore, prevRender>>

-----------------------------------------------------------------------------
(* The process of either script ends; nothing it held in memory is kept.   *)

Exit ==
    /\ pc \in {"done", "failed"}
    /\ tool' = "none"
    /\ pc' = "idle"
    /\ err' = ""
    /\ prompt' = Unset
    /\ converted' = Unset
    /\ k' = 0
    /\ text' = <<>>
    /\ dstBefore' = Absent
    /\ prevRender' = IF tool = "render" /\ pc = "done"
                     THEN [doc |-> prompt, out |-> transcriptFile.chars]
                     ELSE prevRender
    /\ UNCHANGED <<exportFile, promptFile, transcriptFile>>

-----------------------------------------------------------------------------
(* The specification.                                                      *)

\* Either an export is on disk and the prompt file is absent or holds
\* something that is not JSON, or there is no export and the prompt file
\* holds a document written by hand or by some other tool.
Init ==
    /\ \/ /\ exportFile \in {JsonFile(e) : e \in Exports} \cup {Garbage}
          /\ promptFile \in {Absent, Garbage}
       \/ /\ exportFile = Absent
          /\ promptFile \in {JsonFile(d) : d \in Documents}
    /\ transcriptFile = Absent
    /\ tool = "none"
    /\ pc = "idle"
    /\ err = ""
    /\ prompt = Unset
    /\ converted = Unset
    /\ k = 0
    /\ text = <<>>
    /\ dstBefore = Absent
    /\ prevRender = [doc |-> Unset, out |-> <<>>]

Next ==
    \/ StartConvert
    \/ N_Load
    \/ N_Build
    \/ N_Iter
    \/ N_Body
    \/ N_Write
    \/ StartRender
    \/ R_Load
    \/ R_Open
    \/ R_Heading
    \/ R_Blank
    \/ R_Iter
    \/ R_Text
    \/ R_Author
    \/ R_Indent
    \/ R_Newline
    \/ R_Print
    \/ Exit

Spec == Init /\ [][Next]_vars

-----------------------------------------------------------------------------
(* Properties.                                                             *)

ConvertDone == tool = "convert" /\ pc = "done"
ConvertFailed == tool = "convert" /\ pc = "failed"
RenderDone == tool = "render" /\ pc = "done"
RenderFailed == tool = "render" /\ pc = "failed"

\* s begins with p
StartsWith(s, p) == Len(s) >= Len(p) /\ SubSeq(s, 1, Len(p)) = p

\* t with "> " put before every one of its lines, written without reference
\* to the script: atStart says that the next character begins a line.
RECURSIVE QuotedFrom(_, _)
QuotedFrom(t, atStart) ==
    IF t = <<>> THEN <<>>
    ELSE (IF atStart THEN Quote ELSE <<>>) \o <<Head(t)>> \o
         QuotedFrom(Tail(t), Head(t) = NL)

Quoted(t) == QuotedFrom(t, TRUE)

\* The chunks of the export on disk.
SourceChunks == exportFile.value.chunkedPrompt.chunks

\* What the claims call a valid source-export document.
ExportComplete(e) ==
    /\ Has(e, "runSettings")
    /\ \A f \in {"temperature", "maxOutputTokens", "topP", "model"} :
          Has(e.runSettings, f)
    /\ Has(e, "chunkedPrompt")
    /\ Has(e.chunkedPrompt, "chunks")
    /\ \A j \in 1..Len(e.chunkedPrompt.chunks) :
          Has(e.chunkedPrompt.chunks[j], "role") /\ Has(e.chunkedPrompt.chunks[j], "text")

\* The transcript block a chunk ends up as.
ChunkBlock(c) ==
    IF c.role = "user" THEN Quoted(c.text) \o <<NL, NL>> ELSE c.text \o <<NL>>

\* C1: order and count preservation.  When aistudio2vertex.py has written
\* its output, the messages list has as many entries as the export has
\* chunks and the j-th message carries the text of the j-th chunk as its
\* only part; and when vertex2md.py has rendered that output, the
\* transcript is the heading followed by the blocks of chunk 1, chunk 2, ...
\* in that order.
C1_OrderAndCount ==
    /\ ConvertDone =>
          LET msgs == promptFile.value.messages
          IN  /\ Len(msgs) = Len(SourceChunks)
              /\ \A j \in 1..Len(msgs) :
                    msgs[j].content.parts = <<[text |-> SourceChunks[j].text]>>
    /\ (RenderDone /\ IsJson(exportFile)) =>
          transcriptFile.chars =
              <<"#", " ">> \o ImportTitle \o <<NL, NL>> \o
              Concat([j \in 1..Len(SourceChunks) |-> ChunkBlock(SourceChunks[j])])

\* A pipeline run over two chunks with different texts has finished.
C1_Witness ==
    /\ RenderDone /\ IsJson(exportFile)
    /\ Len(prompt.messages) = 2
    /\ SourceChunks[1].role = "model" /\ SourceChunks[2].role = "user"
    /\ SourceChunks[1].text # SourceChunks[2].text

C3_ModelFallback ==
    /\ ConvertDone =>
          LET m == exportFile.value.runSettings.model
              out == promptFile.value.model
          IN  /\ m = "models/gemini-1.5-pro" => out = "gemini-1.5-pro-001"
              /\ m = "models/gemini-1.5-flash" => out = "gemini-1.5-flash-001"
              /\ m \notin {"models/gemini-1.5-pro", "models/gemini-1.5-flash"} =>
                    out = "gemini-1.5-pro"
    /\ (ConvertFailed /\ IsJson(exportFile)) => ~ExportComplete(exportFile.value)

\* An export whose model is not in the table has been converted.
C3_Witness ==
    /\ ConvertDone
    /\ exportFile.value.runSettings.model = "models/gemini-1.0-pro"
    /\ promptFile.value.model = "gemini-1.5-pro"

\* C4: strict structural mapping.  A run over an export that lacks a
\* required field never reaches the write of the destination; it can only
\* end failed, with the KeyError of the missing key.
C4_StrictMapping ==
    (tool = "convert" /\ IsJson(exportFile) /\ ~ExportComplete(exportFile.value)) =>
        /\ pc \notin {"n_write", "done"}
        /\ pc = "failed" => err = "KeyError"
        /\ ~IsJson(promptFile)

\* A run has failed on an export whose second chunk lacks its text, after
\* the message of the first chunk was built.
C4_Witness ==
    /\ ConvertFailed /\ IsJson(exportFile) /\ err = "KeyError"
    /\ converted # Unset
    /\ Len(converted.messages) = 1
    /\ ~Has(SourceChunks[2], "text")

\* The lines of s, without their line ends.
RECURSIVE LinesFrom(_, _)
LinesFrom(s, cur) ==
    IF s = <<>>
    THEN (IF cur = <<>> THEN <<>> ELSE <<cur>>)
    ELSE IF Head(s) = NL
         THEN <<cur>> \o LinesFrom(Tail(s), <<>>)
         ELSE LinesFrom(Tail(s), Append(cur, Head(s)))

Lines(s) == LinesFrom(s, <<>>)

\* The message vertex2md.py is working on, and the text of its first part.
CurrentMessage == prompt.messages[k]
FirstText(m) == m.content.parts[1].text

\* C5 as stated: every line of a user message's block starts with "> ", and
\* no line of a non-user message's block does.
C5_AsStated ==
    /\ (tool = "render" /\ pc = "r_newline") =>
          \A j \in 1..Len(Lines(text)) : StartsWith(Lines(text)[j], Quote)
    /\ (tool = "render" /\ pc = "r_print" /\ CurrentMessage.author # "user") =>
          \A j \in 1..Len(Lines(text)) : ~StartsWith(Lines(text)[j], Quote)

\* C5, amended: every line of a user message's block is "> " followed by
\* the corresponding line of the message text, and the block of a non-user
\* message is the message text with nothing put before any line (so a line
\* of it starts with "> " exactly when that line of the message does).
C5_Quoting ==
    /\ (tool = "render" /\ pc = "r_newline") =>
          LET block == Lines(text)
              source == Lines(FirstText(CurrentMessage))
          IN  /\ CurrentMessage.author = "user"
              /\ Len(block) = Len(source)
              /\ \A j \in 1..Len(block) :
                    StartsWith(block[j], Quote) /\ block[j] = Quote \o source[j]
    /\ (tool = "render" /\ pc = "r_print" /\ CurrentMessage.author # "user") =>
          text = FirstText(CurrentMessage)

\* A user message of three lines, one of them empty, has been quoted.
C5_Witness ==
    /\ tool = "render" /\ pc = "r_newline"
    /\ Len(Lines(text)) = 3
    /\ Lines(FirstText(CurrentMessage))[2] = <<>>

\* The body of a message's block, and the whole transcript with a given
\* separator after each block.
BlockBody(m) == IF m.author = "user" THEN Quoted(FirstText(m)) ELSE FirstText(m)

TranscriptWith(doc, Separator(_)) ==
    <<"#", " ">> \o doc.title \o <<NL>> \o <<NL>> \o
    Concat([j \in 1..Len(doc.messages) |->
               BlockBody(doc.messages[j]) \o Separator(doc.messages[j])])

\* The end of the block's last line and one empty line.
BlankLineAfter(m) == <<NL, NL>>

\* The same after a user message, only the end of the last line after any other.
BlankLineAfterUser(m) == IF m.author = "user" THEN <<NL, NL>> ELSE <<NL>>

C7_FirstPartOnly ==
    /\ (tool = "render" /\ pc \in {"r_author", "r_indent", "r_newline", "r_print"}) =>
          Len(CurrentMessage.content.parts) >= 1
    /\ (tool = "render" /\ pc = "r_author") => text = FirstText(CurrentMessage)
    /\ (tool = "render" /\ pc = "r_print") =>
          text = IF CurrentMessage.author = "user"
                 THEN Quoted(FirstText(CurrentMessage)) \o <<NL>>
                 ELSE FirstText(CurrentMessage)
    /\ RenderDone =>
          /\ \A j \in 1..Len(prompt.messages) :
                Len(prompt.messages[j].content.parts) >= 1
          /\ transcriptFile.chars =
                TranscriptWith(
                    [title |-> prompt.title,
                     messages |-> [j \in 1..Len(prompt.messages) |->
                        [author |-> prompt.messages[j].author,
                         content |-> [parts |->
                            <<prompt.messages[j].content.parts[1]>>]]]],
                    BlankLineAfterUser)
    /\ (RenderFailed /\ err = "IndexError") => CurrentMessage.content.parts = <<>>

\* A document with a message of several parts has been rendered.
C7_Witness ==
    /\ RenderDone
    /\ \E j \in 1..Len(prompt.messages) :
          /\ Len(prompt.messages[j].content.parts) >= 2
          /\ prompt.messages[j].content.parts[2].text # FirstText(prompt.messages[j])

\* C8: idempotent rendering.  A run that renders the document the previous
\* completed run rendered leaves the transcript that run left.
C8_Idempotent ==
    (RenderDone /\ prevRender.doc = prompt) => transcriptFile.chars = prevRender.out

\* A second run over a document with two messages has finished, having
\* started with the first run's transcript as its destination.
C8_Witness ==
    /\ RenderDone /\ prevRender.doc = prompt
    /\ Len(prompt.messages) = 2
    /\ dstBefore = TextFile(prevRender.out)

\* C9: write-after-build.  Until aistudio2vertex.py has finished, and so in
\* every run that failed, the destination is as it was when the run began.
C9_WriteAfterBuild ==
    (tool = "convert" /\ pc # "done") => promptFile = dstBefore

\* A run has failed in the loop, after a first message was built, with a
\* destination file that existed before.
C9_Witness ==
    /\ ConvertFailed /\ err = "KeyError"
    /\ converted # Unset
    /\ Len(converted.messages) = 1
    /\ dstBefore = Garbage
    /\ promptFile = Garbage

\* What the script can render of a message.
Renderable(m) ==
    /\ Has(m, "author")
    /\ Has(m, "content")
    /\ Has(m.content, "parts")
    /\ Len(m.content.parts) >= 1
    /\ Has(m.content.parts[1], "text")

\* What the script writes for a message.
Emitted(m) ==
    IF m.author = "user"
    THEN Quoted(FirstText(m)) \o <<NL, NL>>
    ELSE FirstText(m) \o <<NL>>

\* C10: partial output on failure.  A run that fails after reading its
\* source leaves an empty destination when the document has no title, and
\* otherwise the heading, the blank line and the blocks of the messages
\* before the first one it cannot render.
C10_PartialOutput ==
    (RenderFailed /\ err \notin {"FileNotFoundError", "JSONDecodeError"}) =>
        IF ~Has(prompt, "title")
        THEN transcriptFile = TextFile(<<>>)
        ELSE IF ~Has(prompt, "messages")
        THEN transcriptFile.chars = <<"#", " ">> \o prompt.title \o <<NL, NL>>
        ELSE /\ k \in 1..Len(prompt.messages)
             /\ ~Renderable(prompt.messages[k])
             /\ \A j \in 1..(k - 1) : Renderable(prompt.messages[j])
             /\ transcriptFile.chars =
                   <<"#", " ">> \o prompt.title \o <<NL, NL>> \o
                   Concat([j \in 1..(k - 1) |-> Emitted(prompt.messages[j])])

\* A run has failed on a second message that has no parts, after a first
\* message by the user.
C10_Witness ==
    /\ RenderFailed /\ err = "IndexError"
    /\ k = 2
    /\ prompt.messages[1].author = "user"

=============================================================================
